---- MODULE Spec2Model ----
(***************************************************************************)
(* Model of the Reddit poster (class Reddit, src/unnamed/part_002): the    *)
(* per-channel posting scheduler that refreshes a channel from the store,  *)
(* fetches posts, filters and publishes them at a paced rate, retries      *)
(* failed calls and reschedules itself.                                    *)
(*                                                                         *)
(* One step of the model is one continuation of the program: the           *)
(* completion of an awaited external call (findOne, countDocuments,        *)
(* importData, sendPhoto) or the expiry of a timer (setTimeout, sleep,     *)
(* setInterval).  Everything the program does synchronously up to the next *)
(* await belongs to the same step.                                         *)
(***************************************************************************)
EXTENDS Integers, Sequences, FiniteSets

(* ------------------------------------------------------------------ *)
(* Program constants (Reddit.constructor)                              *)
(* ------------------------------------------------------------------ *)
second == 1000

minute == 60 * second

hour == 60 * minute

startingInterval == second

postingInterval == 5 * minute

retryInterval == 5 * second

updatingInterval == hour

clearingInterval == 24 * hour

maxRetries == 3

\* let startTime: number = 1000 in start()
startTime == 1000

(* ------------------------------------------------------------------ *)
(* Bounds of the model                                                 *)
(* ------------------------------------------------------------------ *)
\* post identifiers are 1..MaxId
MaxId == 2

\* longest sequence of posts one fetch returns
MaxPosts == 2

\* the channel ids of the store
Channels == {1, 2}

PostIds == 1..MaxId

\* created_utc as reported by the source: fixed per post
CreatedUtc(i) == 1700000000 + i

\* a RedditPost: removed_by_category is modelled by its truthiness
Posts == {[id |-> i, created_utc |-> CreatedUtc(i), removed_by_category |-> r] :
            i \in PostIds, r \in BOOLEAN}

SeqsUpTo(S, n) == UNION {[1..k -> S] : k \in 0..n}

\* what importData may resolve to: the source reports every post once
FetchResults ==
    {s \in SeqsUpTo(Posts, MaxPosts) :
        \A i, j \in 1..Len(s) : i # j => s[i].id # s[j].id}

\* the body of an error response: detail, auth and text are "" when the
\* body has no such part (undefined and "" are both falsy)
ErrorBodies ==
    {[status |-> 403, detail |-> "Not authenticated", auth |-> "", text |-> ""],
     [status |-> 401, detail |-> "", auth |-> "Token expired", text |-> ""],
     [status |-> 500, detail |-> "", auth |-> "", text |-> "Internal Server Error"]}

\* what axios.get may reject with: an error that carries the response of the
\* source, or one that carries none (error.response is undefined)
SourceFailures == {[response |-> {}]} \cup {[response |-> {b}] : b \in ErrorBodies}

\* an Error object: its class, the text of its message and the values the
\* message is formatted with
NoError == [name |-> "", text |-> "", status |-> 0, cause |-> ""]

\* what sendPhoto may reject with: errors of the Telegram Bot API
SendFailures ==
    {[name |-> "Error", text |-> "ETELEGRAM: %s %s", status |-> 429,
      cause |-> "Too Many Requests"],
     [name |-> "Error", text |-> "ETELEGRAM: %s %s", status |-> 400,
      cause |-> "Bad Request: wrong file identifier"]}

\* the rejection handler of importData: const errorData = error.response.data
\* throws a TypeError when there is no response, else the handler throws
\* Error(`Reddit PushShift API Error. Status code: ${status}. ${cause}`) with
\* cause = errorData.detail || errorData.auth || errorData
importDataError(failure) ==
    IF failure.response = {}
    THEN [name |-> "TypeError",
          text |-> "Cannot read properties of undefined (reading 'data')",
          status |-> 0, cause |-> ""]
    ELSE LET errorData == CHOOSE b \in failure.response : TRUE
         IN  [name |-> "Error",
              text |-> "Reddit PushShift API Error. Status code: %s. %s",
              status |-> errorData.status,
              cause |-> IF errorData.detail # "" THEN errorData.detail
                        ELSE IF errorData.auth # "" THEN errorData.auth
                        ELSE errorData.text]

\* channel.interval: 0 stands for "not set" (undefined and 0 are both falsy in
\* channel.interval || this.postingInterval); 2500000 does not divide the
\* updating interval, 7200000 exceeds it
Intervals == {0, 2500000, 7200000}

\* a RedditChannel document (its id is the index it is stored under)
ChannelRecords == [enabled : BOOLEAN, interval : Intervals]

\* a query result: the empty set is "no document" / null
NoRecord == {}

RecordSets == {NoRecord} \cup {{r} : r \in ChannelRecords}

\* the contents of the 'reddit' collection when start() reads it: channel 1
\* is arbitrary, the other channels are in the collection, disabled
Stores ==
    {s \in [Channels -> RecordSets] :
        \A c \in Channels \ {1} : s[c] = {[enabled |-> FALSE, interval |-> 0]}}

(* ------------------------------------------------------------------ *)
(* State                                                               *)
(* ------------------------------------------------------------------ *)
VARIABLES
    started,        \* start(): "init", "running" or "failed"
    alive,          \* the process is running
    uncaught,       \* the error that ended the process, "" if none
    publishedPosts, \* Map<number,string>[]: defined for the started channels
    clearTimers,    \* channels with a registered setInterval
    driver          \* per channel: the position and locals of its call chain

vars == <<started, alive, uncaught, publishedPosts, clearTimers, driver>>

(* ------------------------------------------------------------------ *)
(* Map<number, string> as a set of <<key, value>> pairs                *)
(* ------------------------------------------------------------------ *)
EmptyMap == {}

MapKeys(m) == {p[1] : p \in m}

MapHas(m, k) == \E p \in m : p[1] = k

MapSet(m, k, v) == {p \in m : p[1] # k} \cup {<<k, v>>}

MapGet(m, k) == (CHOOSE p \in m : p[1] = k)[2]

(* ------------------------------------------------------------------ *)
(* The terminal errors of the retried operations: the template of the  *)
(* message and the expressions it interpolates, by name                *)
(* ------------------------------------------------------------------ *)
NoThrown == [text |-> "", args |-> [message |-> NoError]]

NoSendThrown == [text |-> "", args |-> [url |-> 0, message |-> NoError]]

\* variant: the message of the error of the last attempt is left out
failedToGetPosts_noCause(error) ==
    [text |-> "Failed to get posts from Reddit: ${error.message}",
     args |-> [message |-> NoError]]

\* new Error(`Failed to get posts from Reddit: ${error.message}`)
failedToGetPosts(error) ==
    [text |-> "Failed to get posts from Reddit: ${error.message}",
     args |-> [message |-> error]]

\* new Error(`Failed to publish the post ${post.url}. ${error.message}`); the
\* url of a post is identified by the post's id
failedToPublish(post, error) ==
    [text |-> "Failed to publish the post ${post.url}. ${error.message}",
     args |-> [url |-> post.id, message |-> error]]

(* ------------------------------------------------------------------ *)
(* The driver record of a channel                                      *)
(*   code state:  pc, channel, found, attempt, posts, newPosts,        *)
(*                cursor, postsCounter, timer, outstanding (the number *)
(*                of awaited calls and timers of the chain that have   *)
(*                not completed yet)                                   *)
(*   observation: histStart, sent, fetchCalls, fetchFails, fetchResult *)
(*                sendCalls, sendFails, sendResult, publishRuns, error *)
(*                fetchError (what the latest attempt of importData    *)
(*                rejected with), fetchThrown and sendThrown (the      *)
(*                latest terminal error of updatePosts, of sendPost),  *)
(*                paced (the milliseconds of sleep(postingInterval)    *)
(*                that have been served in the cycle), sendTotal (the  *)
(*                calls of sendPhoto made in the cycle)                *)
(* ------------------------------------------------------------------ *)
Off ==
    [pc |-> "off", channel |-> NoRecord, found |-> NoRecord, attempt |-> 0,
     posts |-> <<>>, newPosts |-> <<>>, cursor |-> 0, postsCounter |-> 0,
     timer |-> 0, outstanding |-> 0,
     histStart |-> {}, sent |-> <<>>,
     fetchCalls |-> 0, fetchFails |-> 0, fetchResult |-> "none",
     sendCalls |-> 0, sendFails |-> 0, sendResult |-> "none",
     publishRuns |-> 0, paced |-> 0, sendTotal |-> 0, error |-> "none", fetchError |-> NoError,
     fetchThrown |-> NoThrown, sendThrown |-> NoSendThrown]

\* the record held by a driver
Rec(d) == CHOOSE r \in d.channel : TRUE

(* ------------------------------------------------------------------ *)
(* publishPosts: locals, filter, loop                                  *)
(* ------------------------------------------------------------------ *)
\* const postingInterval = channel.interval || this.postingInterval
channelPostingInterval(ch) ==
    IF ch.interval # 0 THEN ch.interval ELSE postingInterval

\* variant: Math.ceil instead of Math.floor
maxPostsPerUpdate_ceil(ch) ==
    (updatingInterval + channelPostingInterval(ch) - 1) \div channelPostingInterval(ch)

\* Math.floor(this.updatingInterval / postingInterval), intervals are positive
maxPostsPerUpdate(ch) == updatingInterval \div channelPostingInterval(ch)

\* variant: the removal check is missing
skipRemoved_never(post) == FALSE

\* variant: the removal check is inverted
skipRemoved_inverted(post) == ~post.removed_by_category

\* if (post.removed_by_category) continue
skipRemoved(post) == post.removed_by_category

\* variant: the history check is missing
skipPublished_never(post, hist) == FALSE

\* if (this.publishedPosts[channel.id].has(post.id)) continue
skipPublished(post, hist) == MapHas(hist, post.id)

\* variant: newPosts.unshift(post), the candidates come out in reverse
filterPosts_unshift(posts, hist) ==
    LET kept == SelectSeq(posts, LAMBDA p : ~skipRemoved(p) /\ ~skipPublished(p, hist))
    IN  [k \in 1..Len(kept) |-> kept[Len(kept) + 1 - k]]

\* the filtering loop: newPosts in the order of posts
filterPosts(posts, hist) ==
    SelectSeq(posts, LAMBDA p : ~skipRemoved(p) /\ ~skipPublished(p, hist))

\* variant: the loop stops one post late
limitReached_late(counter, max) == counter > max

\* variant: the loop stops one post early
limitReached_early(counter, max) == counter + 1 >= max

\* if (postsCounter == maxPostsPerUpdate) break
limitReached(counter, max) == counter = max

\* variant: the history keeps only the latest post
recordPublished_latest(hist, post) == {<<post.id, post.created_utc>>}

\* variant: key and value are swapped
recordPublished_swapped(hist, post) == MapSet(hist, post.created_utc, post.id)

\* this.publishedPosts[channel.id].set(post.id, post.created_utc)
recordPublished(hist, post) == MapSet(hist, post.id, post.created_utc)

(* ------------------------------------------------------------------ *)
(* updateChannel and what follows it, as functions on a driver record  *)
(* ------------------------------------------------------------------ *)
\* updateChannel(channel): getChannelFromDB starts with findOne
updateChannel(d) ==
    [d EXCEPT !.pc = "findOne", !.found = NoRecord, !.timer = 0,
              !.outstanding = @ + 1]

\* a timer callback channel => this.updateChannel(channel): only the
\* channel record is passed on
timerCallback(d) ==
    updateChannel([Off EXCEPT !.channel = d.channel,
                              !.outstanding = d.outstanding])

\* getChannelFromDB after findOne: countDocuments is awaited next; the locals
\* of the cycle that called updateChannel are gone by now
findOneResolved(d, result) ==
    [Off EXCEPT !.pc = "countDocuments", !.channel = d.channel, !.found = result,
                !.outstanding = d.outstanding + 1]

\* variant: a failed refresh is retried like a failed cycle
updateChannelRejected_retry(d, err) ==
    [d EXCEPT !.pc = "recovery", !.found = NoRecord, !.timer = postingInterval,
              !.outstanding = @ + 1, !.error = err]

\* updateChannel, second handler of then(): the channel is stopped
updateChannelRejected(d, err) ==
    [d EXCEPT !.pc = "stopped", !.found = NoRecord, !.timer = 0, !.error = err]

\* updatePosts(channel) with attempt = 1: a new cycle starts with getPosts
updatePosts(d, ch) ==
    [Off EXCEPT !.pc = "getPosts", !.channel = {ch}, !.attempt = 1,
                !.outstanding = d.outstanding + 1,
                !.fetchCalls = 1, !.fetchResult = "pending"]

\* variant: updatePosts is called with the parameter of updateChannel, not
\* with the record getChannelFromDB returned
updateChannelResolved_stale(d, result) ==
    IF result # NoRecord
    THEN updatePosts(d, Rec(d))
    ELSE [d EXCEPT !.pc = "stopped", !.found = NoRecord, !.timer = 0,
                   !.error = "NullChannel"]

\* updateChannel, first handler of then(): if (channel) updatePosts(channel)
updateChannelResolved(d, result) ==
    IF result # NoRecord
    THEN updatePosts(d, CHOOSE r \in result : TRUE)
    ELSE [d EXCEPT !.pc = "stopped", !.found = NoRecord, !.timer = 0,
                   !.error = "NullChannel"]

\* getChannelFromDB after countDocuments: throw when the count is 0
getChannelFromDB(d, count) ==
    IF count = 0
    THEN updateChannelRejected(d, "NotFound")
    ELSE updateChannelResolved(d, d.found)

\* variant: the catch calls updateChannel at once, without setTimeout
updatePostsFailed_immediate(d, err) ==
    updateChannel([d EXCEPT !.error = err])

\* variant: a failed cycle stops the channel
updatePostsFailed_stop(d, err) ==
    [d EXCEPT !.pc = "stopped", !.timer = 0, !.error = err]

\* variant: the timer of the catch is set to the channel's own interval
updatePostsFailed_channelInterval(d, err) ==
    [d EXCEPT !.pc = "recovery", !.timer = channelPostingInterval(Rec(d)),
              !.outstanding = @ + 1, !.error = err]

\* variant: updatePosts(channel) is called without catch, the rejection is
\* left unhandled
updatePostsFailed_unhandled(d, err) ==
    [d EXCEPT !.pc = "unhandled", !.timer = 0, !.error = err]

\* the catch of updatePosts in updateChannel:
\* setTimeout(channel => this.updateChannel(channel), this.postingInterval, channel)
updatePostsFailed(d, err) ==
    [d EXCEPT !.pc = "recovery", !.timer = postingInterval,
              !.outstanding = @ + 1, !.error = err]

\* sendPost(channel.name, telegramChatId, post) with attempt = 1
\* variant: the attempt number is kept from one post to the next
sendPost_carry(d, k) ==
    [d EXCEPT !.pc = "sendPhoto", !.cursor = k,
              !.attempt = IF d.attempt = 0 THEN 1 ELSE d.attempt, !.timer = 0,
              !.outstanding = @ + 1, !.sendCalls = 1, !.sendFails = 0, !.sendResult = "pending",
              !.sendTotal = @ + 1]

\* sendPost(channelName, chatId, post): attempt takes its default, 1
sendPost(d, k) ==
    [d EXCEPT !.pc = "sendPhoto", !.cursor = k, !.attempt = 1, !.timer = 0,
              !.outstanding = @ + 1, !.sendCalls = 1, !.sendFails = 0, !.sendResult = "pending",
              !.sendTotal = @ + 1]

\* variant: the error of publishPosts reaches the rejection handler of getPosts
\* (then(...).catch(...) instead of the two handlers of one then())
publishEnd_refetch(d) ==
    IF d.postsCounter = 0
    THEN IF d.attempt < maxRetries
         THEN [d EXCEPT !.pc = "fetchSleep", !.timer = retryInterval,
                        !.outstanding = @ + 1, !.error = "FailedToPublishAny"]
         ELSE updatePostsFailed([d EXCEPT !.timer = 0], "FailedToPublishAny")
    ELSE updateChannel(d)

\* publishPosts after the publishing loop
publishEnd(d) ==
    IF d.postsCounter = 0
    THEN updatePostsFailed([d EXCEPT !.timer = 0], "FailedToPublishAny")
    ELSE updateChannel(d)

\* the head of the publishing loop for the candidate after d.cursor
publishLoop(d) ==
    IF d.cursor + 1 <= Len(d.newPosts)
       /\ ~limitReached(d.postsCounter, maxPostsPerUpdate(Rec(d)))
    THEN sendPost(d, d.cursor + 1)
    ELSE publishEnd(d)

\* variant: the test of newPosts.length is missing
publishPosts_noTest(d, posts, hist) ==
    publishLoop([d EXCEPT !.posts = posts, !.newPosts = filterPosts(posts, hist),
                          !.postsCounter = 0, !.cursor = 0, !.attempt = 0,
                          !.publishRuns = @ + 1, !.histStart = MapKeys(hist)])

\* publishPosts(channel, posts) up to its first await
publishPosts(d, posts, hist) ==
    LET d1 == [d EXCEPT !.posts = posts, !.newPosts = filterPosts(posts, hist),
                        !.postsCounter = 0, !.cursor = 0, !.attempt = 0,
                        !.publishRuns = @ + 1, !.histStart = MapKeys(hist)]
    IN  IF Len(d1.newPosts) = 0
        THEN updatePostsFailed(d1, "NoNewPosts")
        ELSE publishLoop(d1)

\* await this.sleep(postingInterval) in the success handler returns: the loop
\* of publishPosts goes on
sleepResolved(d) ==
    publishLoop([d EXCEPT !.paced = @ + d.timer])

\* variant: the success handler does not sleep
sendPostResolved_noSleep(d) ==
    publishLoop([d EXCEPT !.postsCounter = @ + 1,
                          !.sent = Append(@, d.newPosts[d.cursor]),
                          !.sendResult = "ok"])

\* sendPost, first handler of then(), and the success handler in publishPosts
\* up to await this.sleep(postingInterval)
sendPostResolved(d) ==
    [d EXCEPT !.pc = "pacing", !.postsCounter = @ + 1,
              !.timer = channelPostingInterval(Rec(d)),
              !.outstanding = @ + 1,
              !.sent = Append(@, d.newPosts[d.cursor]),
              !.sendResult = "ok"]

\* variant: the error of an exhausted send leaves the publishing loop
sendPostRejected_abort(d, error) ==
    IF d.attempt < maxRetries
    THEN [d EXCEPT !.pc = "sendSleep", !.timer = retryInterval,
                   !.outstanding = @ + 1, !.sendFails = @ + 1]
    ELSE publishEnd([d EXCEPT !.sendFails = @ + 1, !.sendResult = "exhausted",
                               !.sendThrown = failedToPublish(d.newPosts[d.cursor], error)])

\* variant: the retry is started without being awaited, the loop goes on to
\* the next candidate while the sleep of the retry is pending
sendPostRejected_detached(d, error) ==
    IF d.attempt < maxRetries
    THEN publishLoop([d EXCEPT !.outstanding = @ + 1, !.sendFails = @ + 1])
    ELSE publishLoop([d EXCEPT !.sendFails = @ + 1, !.sendResult = "exhausted",
                               !.sendThrown = failedToPublish(d.newPosts[d.cursor], error)])

\* variant: the retry test is attempt <= maxRetries
sendPostRejected_extra(d, error) ==
    IF d.attempt <= maxRetries
    THEN [d EXCEPT !.pc = "sendSleep", !.timer = retryInterval,
                   !.outstanding = @ + 1, !.sendFails = @ + 1]
    ELSE publishLoop([d EXCEPT !.sendFails = @ + 1, !.sendResult = "exhausted",
                               !.sendThrown = failedToPublish(d.newPosts[d.cursor], error)])

\* sendPost, second handler of then()
sendPostRejected(d, error) ==
    IF d.attempt < maxRetries
    THEN [d EXCEPT !.pc = "sendSleep", !.timer = retryInterval,
                   !.outstanding = @ + 1, !.sendFails = @ + 1]
    ELSE publishLoop([d EXCEPT !.sendFails = @ + 1, !.sendResult = "exhausted",
                               !.sendThrown = failedToPublish(d.newPosts[d.cursor], error)])

\* return this.sendPost(channelName, chatId, post, ++attempt)
sendPostRetry(d) ==
    [d EXCEPT !.pc = "sendPhoto", !.attempt = @ + 1, !.timer = 0,
              !.outstanding = @ + 1, !.sendCalls = @ + 1, !.sendTotal = @ + 1]

\* updatePosts, second handler of then()
getPostsRejected(d, error) ==
    IF d.attempt < maxRetries
    THEN [d EXCEPT !.pc = "fetchSleep", !.timer = retryInterval,
                   !.outstanding = @ + 1, !.fetchFails = @ + 1,
                   !.fetchError = error]
    ELSE updatePostsFailed([d EXCEPT !.fetchFails = @ + 1,
                                     !.fetchResult = "exhausted",
                                     !.fetchError = error,
                                     !.fetchThrown = failedToGetPosts(error)],
                           "FailedToGetPosts")

\* return this.updatePosts(channel, ++attempt)
updatePostsRetry(d) ==
    [d EXCEPT !.pc = "getPosts", !.attempt = @ + 1, !.timer = 0,
              !.outstanding = @ + 1, !.fetchCalls = @ + 1,
              !.fetchError = NoError]

\* updatePosts, first handler of then()
getPostsResolved(d, posts, hist) ==
    publishPosts([d EXCEPT !.fetchResult = "ok"], posts, hist)

(* ------------------------------------------------------------------ *)
(* start()                                                             *)
(* ------------------------------------------------------------------ *)
\* variant: start() does not test channel.enabled
enabledChannels_all(store) ==
    {c \in Channels : store[c] # NoRecord}

\* the channels start() launches: those with channel.enabled
enabledChannels(store) ==
    {c \in Channels : \E r \in store[c] : r.enabled}

\* variant: startTime is not advanced
startDelay_same(store, c) == startTime

\* the delay of the first updateChannel of channel c: startTime grows by
\* startingInterval with every enabled channel, in the order of the ids
startDelay(store, c) ==
    startTime + startingInterval * Cardinality({e \in enabledChannels(store) : e < c})

\* the receiver Map.prototype.clear is called with by
\* setInterval(this.publishedPosts[channel.id].clear, ...): the method is
\* passed unbound, so the timer calls it with its own Timeout object
clearReceiver == "Timeout"

\* variant: one history for all the channels
publishedPostsAt_shared(pp, id) == UNION {pp[x] : x \in DOMAIN pp}

\* this.publishedPosts[channel.id]
publishedPostsAt(pp, id) == pp[id]

(* ------------------------------------------------------------------ *)
(* Initial state: after the constructor, before start() has read the   *)
(* channels.  The store and the two external services are not part of  *)
(* the state: what they answer is an input of the step that reads it.  *)
(* ------------------------------------------------------------------ *)
Init ==
    /\ started = "init"
    /\ alive = TRUE
    /\ uncaught = ""
    /\ publishedPosts = << >>
    /\ clearTimers = {}
    /\ driver = [c \in Channels |-> Off]

(* ------------------------------------------------------------------ *)
(* Actions                                                             *)
(* ------------------------------------------------------------------ *)
\* getChannelsFromDB resolves with the channels of store, sorted by id
StartResolved(store) ==
    /\ alive /\ started = "init"
    /\ \E c \in Channels : store[c] # NoRecord
    /\ started' = "running"
    /\ publishedPosts' = [c \in enabledChannels(store) |-> EmptyMap]
    /\ clearTimers' = enabledChannels(store)
    /\ driver' = [c \in Channels |->
                    IF c \in enabledChannels(store)
                    THEN [Off EXCEPT !.pc = "startTimer", !.channel = store[c],
                                     !.timer = startDelay(store, c),
                                     !.outstanding = 1]
                    ELSE Off]
    /\ UNCHANGED <<alive, uncaught>>

\* variant: then() of start() has no rejection handler, the rejection is
\* unhandled and ends the process
StartRejected_unhandled ==
    /\ alive /\ started = "init"
    /\ started' = "failed"
    /\ alive' = FALSE
    /\ uncaught' = "UnhandledRejection"
    /\ UNCHANGED <<publishedPosts, clearTimers, driver>>

\* getChannelsFromDB rejects: no channel in the collection, or the store fails
StartRejected ==
    /\ alive /\ started = "init"
    /\ started' = "failed"
    /\ UNCHANGED <<alive, uncaught, publishedPosts, clearTimers, driver>>

\* variant: a channel that stops takes the other running channels with it
Step_stopAll(c, pcs, d) ==
    /\ alive
    /\ driver[c].pc \in pcs
    /\ driver' = [x \in Channels |->
                    IF x = c THEN [d EXCEPT !.outstanding = @ - 1]
                    ELSE IF d.pc = "stopped" /\ driver[x].pc # "off"
                         THEN updateChannelRejected(driver[x], d.error)
                         ELSE driver[x]]
    /\ UNCHANGED <<started, alive, uncaught, clearTimers>>

\* the awaited call or the timer of channel c at one of the positions pcs
\* completes; its continuation leaves the chain of c as d and nothing of
\* another channel is touched
Step(c, pcs, d) ==
    /\ alive
    /\ driver[c].pc \in pcs
    /\ driver' = [driver EXCEPT ![c] = [d EXCEPT !.outstanding = @ - 1]]
    /\ UNCHANGED <<started, alive, uncaught, clearTimers>>

\* the setTimeout of start() fires
StartTimer(c) ==
    /\ Step(c, {"startTimer"}, timerCallback(driver[c]))
    /\ UNCHANGED publishedPosts

\* findOne resolves with result (no document: null)
FindOneResolved(c, result) ==
    /\ Step(c, {"findOne"}, findOneResolved(driver[c], result))
    /\ UNCHANGED publishedPosts

\* countDocuments resolves with count
CountDocumentsResolved(c, count) ==
    /\ Step(c, {"countDocuments"}, getChannelFromDB(driver[c], count))
    /\ UNCHANGED publishedPosts

\* findOne or countDocuments rejects: the store cannot be reached
StoreFailed(c) ==
    /\ Step(c, {"findOne", "countDocuments"}, updateChannelRejected(driver[c], "StoreError"))
    /\ UNCHANGED publishedPosts

\* importData resolves with posts
ImportDataResolved(c, posts) ==
    /\ Step(c, {"getPosts"}, getPostsResolved(driver[c], posts, publishedPostsAt(publishedPosts, c)))
    /\ UNCHANGED publishedPosts

\* axios.get rejects with failure, importData with what its handler throws
ImportDataRejected(c, failure) ==
    /\ Step(c, {"getPosts"}, getPostsRejected(driver[c], importDataError(failure)))
    /\ UNCHANGED publishedPosts

\* the sleep(retryInterval) of updatePosts ends
FetchRetryTimer(c) ==
    /\ Step(c, {"fetchSleep"}, updatePostsRetry(driver[c]))
    /\ UNCHANGED publishedPosts

\* sendPhoto resolves
SendPhotoResolved(c) ==
    /\ Step(c, {"sendPhoto"}, sendPostResolved(driver[c]))
    /\ publishedPosts' = [publishedPosts EXCEPT
         ![c] = recordPublished(@, driver[c].newPosts[driver[c].cursor])]

\* sendPhoto rejects with failure
SendPhotoRejected(c, failure) ==
    /\ Step(c, {"sendPhoto"}, sendPostRejected(driver[c], failure))
    /\ UNCHANGED publishedPosts

\* the sleep(retryInterval) of sendPost ends
SendRetryTimer(c) ==
    /\ Step(c, {"sendSleep"}, sendPostRetry(driver[c]))
    /\ UNCHANGED publishedPosts

\* the sleep(postingInterval) after a published post ends
PacingTimer(c) ==
    /\ Step(c, {"pacing"}, sleepResolved(driver[c]))
    /\ UNCHANGED publishedPosts

\* the setTimeout of the catch in updateChannel fires
RecoveryTimer(c) ==
    /\ Step(c, {"recovery"}, timerCallback(driver[c]))
    /\ UNCHANGED publishedPosts

\* the setInterval of start() fires for channel c: clear is called with
\* clearReceiver as this.  On any receiver but a Map, Map.prototype.clear
\* throws a TypeError; it is thrown inside the timer callback, nothing
\* catches it and the process ends, its memory and timers with it.
ClearTimer(c) ==
    /\ alive
    /\ c \in clearTimers
    /\ IF clearReceiver = "Map"
       THEN /\ publishedPosts' = [publishedPosts EXCEPT ![c] = EmptyMap]
            /\ UNCHANGED <<alive, uncaught, clearTimers, driver>>
       ELSE /\ alive' = FALSE
            /\ uncaught' = "TypeError"
            /\ publishedPosts' = << >>
            /\ clearTimers' = {}
            /\ driver' = [d \in Channels |-> Off]
    /\ UNCHANGED started

\* the steps of the program for given answers of the store and the source
NextWith(stores, records, results) ==
    \/ \E store \in stores : StartResolved(store)
    \/ StartRejected
    \/ \E c \in Channels :
        \/ StartTimer(c)
        \/ \E result \in records : FindOneResolved(c, result)
        \/ \E count \in 0..1 : CountDocumentsResolved(c, count)
        \/ StoreFailed(c)
        \/ \E posts \in results : ImportDataResolved(c, posts)
        \/ \E failure \in SourceFailures : ImportDataRejected(c, failure)
        \/ FetchRetryTimer(c)
        \/ SendPhotoResolved(c)
        \/ \E failure \in SendFailures : SendPhotoRejected(c, failure)
        \/ SendRetryTimer(c)
        \/ PacingTimer(c)
        \/ RecoveryTimer(c)
        \/ ClearTimer(c)

Next == NextWith(Stores, RecordSets, FetchResults)

Spec == Init /\ [][Next]_vars

(* ------------------------------------------------------------------ *)
(* Scheduling: a timer that is set fires, and a call that is awaited   *)
(* completes with one of its outcomes, as long as the process runs.    *)
(* ------------------------------------------------------------------ *)
Fairness ==
    /\ WF_vars(StartRejected \/ \E store \in Stores : StartResolved(store))
    /\ \A c \in Channels :
        /\ WF_vars(StartTimer(c))
        /\ WF_vars(StoreFailed(c)
                    \/ (\E result \in RecordSets : FindOneResolved(c, result))
                    \/ (\E count \in 0..1 : CountDocumentsResolved(c, count)))
        /\ WF_vars((\E failure \in SourceFailures : ImportDataRejected(c, failure))
                    \/ \E posts \in FetchResults : ImportDataResolved(c, posts))
        /\ WF_vars(FetchRetryTimer(c))
        /\ WF_vars(SendPhotoResolved(c)
                    \/ \E failure \in SendFailures : SendPhotoRejected(c, failure))
        /\ WF_vars(SendRetryTimer(c))
        /\ WF_vars(PacingTimer(c))
        /\ WF_vars(RecoveryTimer(c))
        /\ WF_vars(ClearTimer(c))

FairSpec == Spec /\ Fairness

(* ------------------------------------------------------------------ *)
(* A source that may report a post more than once in one answer        *)
(* ------------------------------------------------------------------ *)
DupResults == SeqsUpTo(Posts, MaxPosts)

NextDup == NextWith(Stores, RecordSets, DupResults)

SpecDup == Init /\ [][NextDup]_vars

(* ------------------------------------------------------------------ *)
(* A channel that is never stopped, with a source that answers every   *)
(* fetch and returns one post, not removed, every time, and a bot that *)
(* publishes every post it is given                                    *)
(* ------------------------------------------------------------------ *)
RollItem == [id |-> MaxId, created_utc |-> CreatedUtc(MaxId), removed_by_category |-> FALSE]

RollResults == {s \in FetchResults : \E k \in 1..Len(s) : s[k] = RollItem}

RollRecords == {{[enabled |-> TRUE, interval |-> i]} : i \in {0, 2500000}}

RollStores == {s \in Stores : s[1] \in RollRecords}

NextRoll ==
    \/ \E store \in RollStores : StartResolved(store)
    \/ \E c \in Channels :
        \/ StartTimer(c)
        \/ \E result \in RollRecords : FindOneResolved(c, result)
        \/ CountDocumentsResolved(c, 1)
        \/ \E posts \in RollResults : ImportDataResolved(c, posts)
        \/ SendPhotoResolved(c)
        \/ PacingTimer(c)
        \/ RecoveryTimer(c)
        \/ ClearTimer(c)

FairnessRoll ==
    /\ WF_vars(\E store \in RollStores : StartResolved(store))
    /\ \A c \in Channels :
        /\ WF_vars(StartTimer(c))
        /\ WF_vars((\E result \in RollRecords : FindOneResolved(c, result))
                    \/ CountDocumentsResolved(c, 1))
        /\ WF_vars(\E posts \in RollResults : ImportDataResolved(c, posts))
        /\ WF_vars(SendPhotoResolved(c))
        /\ WF_vars(PacingTimer(c))
        /\ WF_vars(RecoveryTimer(c))
        /\ WF_vars(ClearTimer(c))

SpecRoll == Init /\ [][NextRoll]_vars /\ FairnessRoll

(* ------------------------------------------------------------------ *)
(* A channel whose record has an interval near updatingInterval: a     *)
(* half of it, a third of it, and two that do not divide it            *)
(* ------------------------------------------------------------------ *)
PaceIntervals == {1200000, 1800000, 2500000, 3500000}

PaceRecords == {NoRecord} \cup {{[enabled |-> TRUE, interval |-> i]} : i \in PaceIntervals}

PaceStores ==
    {s \in [Channels -> PaceRecords \cup {{[enabled |-> FALSE, interval |-> 0]}}] :
        /\ s[1] \in PaceRecords \ {NoRecord}
        /\ \A c \in Channels \ {1} : s[c] = {[enabled |-> FALSE, interval |-> 0]}}

PaceResults == {s \in FetchResults : \A k \in 1..Len(s) : ~s[k].removed_by_category}

NextPace == NextWith(PaceStores, PaceRecords, PaceResults)

SpecPace == Init /\ [][NextPace]_vars

(* ------------------------------------------------------------------ *)
(* Two running channels: channel 2 is enabled when start() reads the   *)
(* collection, channel 1 is enabled or disabled; the channels have no  *)
(* interval of their own and stay enabled, and a fetch returns at most *)
(* one post                                                            *)
(* ------------------------------------------------------------------ *)
TwoStores ==
    {s \in [Channels -> RecordSets] :
        /\ \A c \in Channels : \E r \in s[c] : r.interval = 0
        /\ \E r \in s[2] : r.enabled}

TwoRecords == {NoRecord, {[enabled |-> TRUE, interval |-> 0]}}

TwoResults == {s \in FetchResults : Len(s) <= 1}

NextTwo == NextWith(TwoStores, TwoRecords, TwoResults)

SpecTwo == Init /\ [][NextTwo]_vars

(* ------------------------------------------------------------------ *)
(* Vocabulary of the properties                                        *)
(* ------------------------------------------------------------------ *)
\* the channels that have a driver
Started == DOMAIN publishedPosts

\* the post sendPhoto is, or is about to be again, called with
Candidate(d) == d.newPosts[d.cursor]

\* a sendPost sequence of channel c is running
Sending(c) == driver[c].pc \in {"sendPhoto", "sendSleep"}

\* the publish cycle of channel c has run and is over; its locals are still
\* observable (until the next refresh reads the store)
CycleOver(c) ==
    /\ driver[c].publishRuns > 0
    /\ driver[c].pc \in {"findOne", "recovery", "stopped"}

\* floor(U / P) for the record the cycle runs with, written out
FloorUP(ch) ==
    updatingInterval \div (IF ch.interval = 0 THEN 5 * 60 * 1000 ELSE ch.interval)

\* the posts of a sequence that are neither removed nor in a set of ids
NewOf(posts, ids) ==
    SelectSeq(posts, LAMBDA p : ~p.removed_by_category /\ p.id \notin ids)

Min(a, b) == IF a <= b THEN a ELSE b

(* ------------------------------------------------------------------ *)
(* C1: publishPosts never calls sendPhoto, on a first attempt or on a  *)
(* retry, for a post whose removed_by_category is set.                 *)
(* ------------------------------------------------------------------ *)
C1_NeverSendsRemoved ==
    \A c \in Started :
        /\ Sending(c) => ~Candidate(driver[c]).removed_by_category
        /\ \A k \in 1..Len(driver[c].sent) : ~driver[c].sent[k].removed_by_category

\* a retry of a send is in flight in a cycle whose fetch returned a removed post
C1_Witness ==
    \E c \in Started :
        /\ driver[c].pc = "sendPhoto" /\ driver[c].attempt > 1
        /\ \E k \in 1..Len(driver[c].posts) : driver[c].posts[k].removed_by_category

(* ------------------------------------------------------------------ *)
(* C2: an identifier that is in the channel's history when a publish   *)
(* cycle starts is never handed to sendPhoto in that cycle.            *)
(* ------------------------------------------------------------------ *)
C2_NeverResendsPublished ==
    \A c \in Started :
        /\ Sending(c) => Candidate(driver[c]).id \notin driver[c].histStart
        /\ \A k \in 1..Len(driver[c].sent) : driver[c].sent[k].id \notin driver[c].histStart

\* a send is in flight in a cycle whose fetch returned, not removed, a post
\* that was already in the history
C2_Witness ==
    \E c \in Started :
        /\ driver[c].pc = "sendPhoto"
        /\ \E k \in 1..Len(driver[c].posts) :
            /\ driver[c].posts[k].id \in driver[c].histStart
            /\ ~driver[c].posts[k].removed_by_category

(* ------------------------------------------------------------------ *)
(* C3: in every publish cycle the number of successful publishes is at *)
(* most floor(U / P), P the channel's interval or else the default.    *)
(* ------------------------------------------------------------------ *)
C3_AtMostMaxPerCycle ==
    \A c \in Started :
        driver[c].publishRuns > 0 =>
            /\ Len(driver[c].sent) <= FloorUP(Rec(driver[c]))
            /\ driver[c].postsCounter = Len(driver[c].sent)

\* a cycle ended at the limit with candidates left over, after a failed send
C3_Witness ==
    \E c \in Started :
        /\ CycleOver(c)
        /\ Len(driver[c].sent) = FloorUP(Rec(driver[c]))
        /\ Len(driver[c].sent) >= 1
        /\ driver[c].cursor < Len(driver[c].newPosts)
        /\ driver[c].sendFails > 0

(* ------------------------------------------------------------------ *)
(* C4: a fetch and a send are each attempted at most 3 times: 3 failed *)
(* attempts end in the terminal failure, a success at attempt k ends   *)
(* the sequence after exactly k attempts; attempts follow one another  *)
(* after the retry delay and never overlap.                            *)
(* ------------------------------------------------------------------ *)
C4_OperationRetries(calls, fails, result, attempt, inFlight, sleeping, timer) ==
    /\ result = "exhausted" => calls = 3 /\ fails = 3
    /\ result = "ok" => calls = fails + 1 /\ calls <= 3
    /\ result = "pending" =>
        /\ attempt = calls /\ calls \in 1..3
        /\ (inFlight /\ calls = fails + 1) \/ (sleeping /\ calls = fails)
    /\ inFlight \/ sleeping => result = "pending"
    /\ sleeping => timer = 5000

C4_RetryDiscipline ==
    /\ [](\A c \in Channels :
            /\ C4_OperationRetries(driver[c].fetchCalls, driver[c].fetchFails,
                   driver[c].fetchResult, driver[c].attempt,
                   driver[c].pc = "getPosts", driver[c].pc = "fetchSleep",
                   driver[c].timer)
            /\ C4_OperationRetries(driver[c].sendCalls, driver[c].sendFails,
                   driver[c].sendResult, driver[c].attempt,
                   driver[c].pc = "sendPhoto", driver[c].pc = "sendSleep",
                   driver[c].timer))
    /\ [][\A c \in Channels :
            /\ (driver[c].fetchResult = "pending"
                  /\ driver'[c].fetchCalls = driver[c].fetchCalls + 1)
                  => /\ driver[c].pc = "fetchSleep" /\ driver[c].timer = 5000
                     /\ driver'[c].pc = "getPosts"
            /\ (driver[c].sendResult = "pending"
                  /\ driver'[c].cursor = driver[c].cursor
                  /\ driver'[c].sendCalls = driver[c].sendCalls + 1)
                  => /\ driver[c].pc = "sendSleep" /\ driver[c].timer = 5000
                     /\ driver'[c].pc = "sendPhoto"]_vars

\* a fetch that succeeded at its third attempt, followed by a send whose
\* three attempts all failed
C4_Witness ==
    \E c \in Started :
        /\ driver[c].fetchResult = "ok" /\ driver[c].fetchCalls = 3
        /\ driver[c].sendResult = "exhausted" /\ driver[c].sendCalls = 3

(* ------------------------------------------------------------------ *)
(* C5 (as claimed): each time the periodic clear of channel c fires it *)
(* completes without an error, c's history is empty afterwards and the *)
(* history of every other channel is unchanged.                        *)
(* ------------------------------------------------------------------ *)
C5_ClearEmptiesHistory ==
    [][\A c \in Channels :
        ClearTimer(c) =>
            /\ alive' /\ uncaught' = ""
            /\ publishedPosts'[c] = EmptyMap
            /\ \A o \in Started \ {c} : publishedPosts'[o] = publishedPosts[o]]_vars

(* ------------------------------------------------------------------ *)
(* C6: when every candidate handed to sendPhoto is published and the   *)
(* cycle has n new candidates, exactly min(n, floor(U/P)) posts are    *)
(* sent and recorded in the history with their creation time; they are *)
(* the first ones in fetched order, and the other candidates are not   *)
(* in the history when the cycle ends.                                 *)
(* ------------------------------------------------------------------ *)
C6_SendsFirstMinOfNAndMax ==
    \A c \in Started :
        LET d == driver[c]
            new == NewOf(d.posts, d.histStart)
            n == Len(new)
            m == Min(n, FloorUP(Rec(d)))
        IN  (CycleOver(c) /\ Len(d.sent) = d.cursor) =>
                /\ Len(d.sent) = m
                /\ d.sent = SubSeq(new, 1, m)
                /\ \A k \in 1..m :
                      <<new[k].id, new[k].created_utc>> \in publishedPosts[c]
                /\ \A k \in (m + 1)..n :
                      new[k].id \notin MapKeys(publishedPosts[c])
                /\ MapKeys(publishedPosts[c]) =
                      d.histStart \cup {new[k].id : k \in 1..m}

\* a cycle in which every send succeeded ended at the limit, one candidate
\* left unsent and unrecorded
C6_Witness ==
    \E c \in Started :
        /\ CycleOver(c)
        /\ Len(driver[c].sent) = driver[c].cursor
        /\ Len(driver[c].newPosts) > Len(driver[c].sent)
        /\ Len(driver[c].sent) >= 1

(* ------------------------------------------------------------------ *)
(* C7 (as claimed): when the fetch of a cycle fails k < 3 times and    *)
(* then succeeds, the publish cycle runs exactly once, on the posts of *)
(* the successful fetch, and every post that is neither removed nor in *)
(* the history is handed to sendPhoto.                                 *)
(* ------------------------------------------------------------------ *)
C7_SendsExactlyTheNewPosts ==
    \A c \in Started :
        LET d == driver[c]
        IN  (CycleOver(c) /\ d.fetchResult = "ok" /\ d.fetchFails < 3
               /\ Rec(d).enabled) =>
                /\ d.publishRuns = 1
                /\ SubSeq(d.newPosts, 1, d.cursor) = NewOf(d.posts, d.histStart)

(* ------------------------------------------------------------------ *)
(* C7 (amended): when the fetch of a cycle fails k < 3 times and then  *)
(* succeeds, the publish cycle runs exactly once, on the posts of the  *)
(* successful fetch; the posts handed to sendPhoto are, in fetched     *)
(* order, posts that are neither removed nor in the history, and all   *)
(* of them unless floor(U/P) posts have been published before.         *)
(* ------------------------------------------------------------------ *)
C7_SendsTheNewPostsUpToTheLimit ==
    \A c \in Started :
        LET d == driver[c]
            new == NewOf(d.posts, d.histStart)
        IN  /\ d.publishRuns > 0 =>
                /\ d.publishRuns = 1
                /\ d.fetchResult = "ok" /\ d.fetchFails < 3
                /\ d.fetchCalls = d.fetchFails + 1
                /\ d.cursor <= Len(new)
                /\ SubSeq(d.newPosts, 1, d.cursor) = SubSeq(new, 1, d.cursor)
                /\ \A k \in 1..Len(d.sent) :
                      \E j \in 1..d.cursor : new[j] = d.sent[k]
            /\ (CycleOver(c) /\ d.cursor < Len(new)) =>
                    Len(d.sent) = FloorUP(Rec(d))
            /\ d.fetchResult = "exhausted" => d.publishRuns = 0

\* the fetch failed twice, then returned a removed post followed by a new
\* one, and the cycle ended having sent only the second
C7_Witness ==
    \E c \in Started :
        LET d == driver[c]
        IN  /\ CycleOver(c)
            /\ d.fetchFails = 2 /\ d.fetchResult = "ok"
            /\ Len(d.posts) = 2
            /\ d.posts[1].removed_by_category
            /\ ~d.posts[2].removed_by_category
            /\ d.sent = <<d.posts[2]>>

(* ------------------------------------------------------------------ *)
(* C8: when the publish loop of a cycle ends with candidates but with  *)
(* no post published, the cycle is reported as a publish failure,      *)
(* nothing has been added to the history, and the channel is not       *)
(* stopped: the timer of its next refresh is pending.                  *)
(* ------------------------------------------------------------------ *)
C8_AllFailedGoesToRecovery ==
    \A c \in Started :
        LET d == driver[c]
        IN  (d.publishRuns > 0 /\ Len(d.newPosts) > 0 /\ d.postsCounter = 0
               /\ ~Sending(c)) =>
                /\ d.error = "FailedToPublishAny"
                /\ d.pc = "recovery" /\ d.timer > 0
                /\ d.sent = << >>
                /\ MapKeys(publishedPosts[c]) = d.histStart

\* every candidate of a cycle with two candidates exhausted its retries
C8_Witness ==
    \E c \in Started :
        LET d == driver[c]
        IN  /\ d.pc = "recovery" /\ d.error = "FailedToPublishAny"
            /\ Len(d.newPosts) = 2 /\ d.cursor = 2
            /\ d.sendResult = "exhausted"

(* ------------------------------------------------------------------ *)
(* C9: when the store reports the channel as not found during a        *)
(* refresh (countDocuments is 0, or findOne found no document), the    *)
(* driver stops; a stopped driver issues no fetch and no publish and   *)
(* has no timer pending.                                               *)
(* ------------------------------------------------------------------ *)
C9_NotFoundStops ==
    [][\A c \in Channels :
        /\ (CountDocumentsResolved(c, 0)
              \/ (driver[c].found = NoRecord /\ CountDocumentsResolved(c, 1)))
              => driver'[c].pc = "stopped" /\ driver'[c].timer = 0
        /\ driver[c].pc = "stopped"
              => /\ driver'[c].pc \in {"stopped", "off"}
                 /\ driver'[c].timer = 0]_vars

\* a driver stopped by a refresh that found no channel, after a publish cycle
C9_Witness ==
    \E c \in Started :
        /\ driver[c].pc = "stopped" /\ driver[c].error = "NotFound"
        /\ publishedPosts[c] # EmptyMap

(* ------------------------------------------------------------------ *)
(* C10 (as claimed): after a refresh that returned the channel with    *)
(* enabled = false no fetch is issued for the channel.                 *)
(* ------------------------------------------------------------------ *)
C10_DisabledIsNotFetched ==
    \A c \in Started :
        driver[c].pc = "getPosts" => Rec(driver[c]).enabled

(* ------------------------------------------------------------------ *)
(* C11 (as claimed): when findOne or countDocuments of a refresh fails *)
(* with a store error, the channel is not stopped: a timer for another *)
(* refresh of the channel is pending afterwards.                       *)
(* ------------------------------------------------------------------ *)
C11_StoreErrorIsRetried ==
    [][\A c \in Channels :
        StoreFailed(c) =>
            /\ driver'[c].pc # "stopped"
            /\ driver'[c].timer > 0]_vars

(* ------------------------------------------------------------------ *)
(* C12: a failure on a started channel A (its fetch or a send exhausts *)
(* the retries, its cycle has nothing new or publishes nothing, A is   *)
(* stopped at a refresh) changes nothing of another started channel B: *)
(* B's driver, B's history and B's timers are as before, the process   *)
(* runs, so B's pending continuation is still the one to come.         *)
(* ------------------------------------------------------------------ *)
FailureStep(a) ==
    /\ driver'[a] # driver[a]
    /\ \/ driver'[a].pc \in {"recovery", "stopped"}
       \/ driver[a].sendResult = "pending" /\ driver'[a].sendResult = "exhausted"

C12_FailureLeavesOthersAlone ==
    [][\A a \in Started : \A b \in Started \ {a} :
        FailureStep(a) =>
            /\ alive'
            /\ driver'[b] = driver[b]
            /\ b \in DOMAIN publishedPosts' /\ publishedPosts'[b] = publishedPosts[b]
            /\ b \in clearTimers']_vars

\* channel A is stopped by a refresh that did not find it and has published
\* nothing; channel B is pacing after a published post, its history filled
C12_Witness ==
    \E a \in Started : \E b \in Started \ {a} :
        /\ driver[a].pc = "stopped" /\ driver[a].error = "NotFound"
        /\ publishedPosts[a] = EmptyMap
        /\ driver[b].pc = "pacing" /\ publishedPosts[b] # EmptyMap

(* ------------------------------------------------------------------ *)
(* C13: every step in which a cycle-level failure surfaces (the fetch  *)
(* retries are exhausted, there is nothing new, nothing was published, *)
(* the refresh did not find the channel) ends with the failure caught: *)
(* the first three with the timer of the next refresh pending, the     *)
(* last with the channel stopped; the process is running afterwards.   *)
(* ------------------------------------------------------------------ *)
C13_CycleFailuresAreCaught ==
    [][\A c \in Channels :
        (driver'[c] # driver[c] /\ driver'[c].error # "none") =>
            /\ alive' /\ uncaught' = ""
            /\ driver'[c].error \in {"FailedToGetPosts", "NoNewPosts", "FailedToPublishAny"}
                  => driver'[c].pc = "recovery" /\ driver'[c].timer > 0
            /\ driver'[c].error \in {"NotFound", "NullChannel", "StoreError"}
                  => driver'[c].pc = "stopped" /\ driver'[c].timer = 0]_vars

\* the fetch retries were exhausted in a later cycle of a channel that has
\* published before: the recovery timer is pending and the process runs
C13_Witness ==
    \E c \in Started :
        /\ alive /\ uncaught = ""
        /\ driver[c].pc = "recovery" /\ driver[c].error = "FailedToGetPosts"
        /\ publishedPosts[c] # EmptyMap

(* ------------------------------------------------------------------ *)
(* C14: a channel has at most one call or timer outstanding at any     *)
(* time.  While its fetch is in flight no publish of the channel has   *)
(* started and no timer is pending; a send is only in flight after the *)
(* fetch of the same cycle has succeeded; while the recovery timer is  *)
(* pending neither a fetch nor a send is.  The first fetch of a cycle  *)
(* is issued only by the refresh that follows the end of the earlier   *)
(* cycle, the start timer or the recovery timer.                       *)
(* ------------------------------------------------------------------ *)
Waiting(d) == d.pc \in {"startTimer", "fetchSleep", "sendSleep", "pacing", "recovery"}

Calling(d) == d.pc \in {"findOne", "countDocuments", "getPosts", "sendPhoto"}

C14_OneCycleAtATime ==
    /\ [](\A c \in Channels :
            LET d == driver[c]
            IN  /\ d.outstanding \in 0..1
                /\ d.outstanding = 1 <=> (Waiting(d) \/ Calling(d))
                /\ d.timer > 0 <=> Waiting(d)
                /\ d.pc \in {"getPosts", "fetchSleep"} =>
                      d.publishRuns = 0 /\ d.sendResult = "none" /\ d.sent = << >>
                /\ d.pc \in {"sendPhoto", "sendSleep", "pacing"} =>
                      d.fetchResult = "ok" /\ d.publishRuns = 1
                /\ d.pc = "recovery" =>
                      d.fetchResult # "pending" /\ d.sendResult # "pending")
    /\ [][\A c \in Channels :
            /\ (driver'[c].pc = "getPosts" /\ driver'[c].attempt = 1
                  /\ driver'[c] # driver[c])
                  => driver[c].pc = "countDocuments" /\ driver[c].outstanding = 1
            /\ (driver'[c].pc = "findOne" /\ driver'[c] # driver[c])
                  => \/ driver[c].pc \in {"startTimer", "recovery"}
                     \/ /\ driver[c].pc \in {"pacing", "sendPhoto"}
                        /\ driver[c].postsCounter > 0
                        /\ driver'[c].sendResult # "pending"]_vars

\* the fetch of a later cycle is being retried: the channel has published
\* before and this call is all that is outstanding for it
C14_Witness ==
    \E c \in Started :
        /\ driver[c].pc = "getPosts" /\ driver[c].attempt > 1
        /\ driver[c].outstanding = 1
        /\ publishedPosts[c] # EmptyMap

(* ------------------------------------------------------------------ *)
(* C15 (as claimed): for a started channel the store keeps returning   *)
(* (its refresh never stops it), every cycle comes to an end whatever  *)
(* its outcome, and after the start and after the end of every cycle   *)
(* another fetch of the channel eventually occurs.                     *)
(* ------------------------------------------------------------------ *)
InCycle(c) ==
    driver[c].pc \in {"getPosts", "fetchSleep", "sendPhoto", "sendSleep", "pacing"}

BetweenCycles(c) ==
    driver[c].pc \in {"startTimer", "recovery", "findOne", "countDocuments"}

C15_FetchesRecur ==
    \A c \in Channels :
        /\ InCycle(c) ~> (BetweenCycles(c) \/ driver[c].pc = "stopped")
        /\ BetweenCycles(c) ~> (driver[c].pc \in {"getPosts", "stopped"})

(* ------------------------------------------------------------------ *)
(* C16 (as claimed): once the fetch retries of a cycle are exhausted,  *)
(* the timer of the next refresh is set to the channel's posting       *)
(* interval: its configured interval if it has one, else the default.  *)
(* ------------------------------------------------------------------ *)
FetchExhausted(c) ==
    driver[c].fetchResult = "exhausted"

C16_RecoveryAfterChannelInterval ==
    \A c \in Started :
        (FetchExhausted(c) /\ Rec(driver[c]).enabled) =>
            /\ driver[c].pc = "recovery"
            /\ driver[c].timer = IF Rec(driver[c]).interval # 0
                                 THEN Rec(driver[c]).interval
                                 ELSE 5 * 60 * 1000

(* ------------------------------------------------------------------ *)
(* C16 (amended): once the fetch retries of a cycle are exhausted, the *)
(* timer of the next refresh is the only thing pending for the channel *)
(* and is set to the default posting interval of 5 minutes, whatever   *)
(* interval the channel is configured with.                            *)
(* ------------------------------------------------------------------ *)
C16_RecoveryAfterDefaultInterval ==
    \A c \in Started :
        FetchExhausted(c) =>
            /\ driver[c].pc = "recovery" /\ driver[c].outstanding = 1
            /\ driver[c].error = "FailedToGetPosts"
            /\ driver[c].fetchCalls = 3
            /\ driver[c].timer = 5 * 60 * 1000

\* the fetch retries are exhausted for a channel configured with an interval
\* of its own
C16_Witness ==
    \E c \in Started :
        /\ FetchExhausted(c)
        /\ Rec(driver[c]).interval = 2500000
        /\ driver[c].timer # Rec(driver[c]).interval

(* ------------------------------------------------------------------ *)
(* C17: a channel whose document has enabled = false when start()      *)
(* reads the collection gets no history, no clear timer and no driver; *)
(* and a channel that start() gave no driver never gets one: nothing   *)
(* is ever called or scheduled for it.                                 *)
(* ------------------------------------------------------------------ *)
C17_DisabledIsNotStarted ==
    [][/\ \A store \in Stores : \A c \in Channels :
            (StartResolved(store) /\ \E r \in store[c] : ~r.enabled) =>
                /\ c \notin DOMAIN publishedPosts'
                /\ c \notin clearTimers'
                /\ driver'[c] = Off
       /\ \A c \in Channels :
            (started = "running" /\ c \notin Started) =>
                /\ c \notin DOMAIN publishedPosts'
                /\ c \notin clearTimers'
                /\ driver'[c] = Off]_vars

\* channel 2, disabled in every collection start() reads, has nothing while
\* channel 1 is fetching in a later cycle
C17_Witness ==
    /\ started = "running"
    /\ 2 \notin Started /\ 2 \notin clearTimers /\ driver[2] = Off
    /\ 1 \in Started /\ driver[1].pc = "getPosts"
    /\ publishedPosts[1] # EmptyMap

(* ------------------------------------------------------------------ *)
(* C18: the start timers of the started channels are set to 1 s, 2 s,  *)
(* ... in the order of the channel ids, counting only the channels     *)
(* that are started, so the timers of two channels waiting for their   *)
(* first cycle differ and the lower id has the shorter one.            *)
(* ------------------------------------------------------------------ *)
C18_StaggeredStart ==
    \A c \in Started :
        driver[c].pc = "startTimer" =>
            /\ driver[c].timer = 1000 * Cardinality({e \in Started : e <= c})
            /\ \A o \in Started :
                  (o < c /\ driver[o].pc = "startTimer") =>
                      driver[o].timer < driver[c].timer

\* both channels are started and wait for their first cycle
C18_Witness ==
    /\ Started = {1, 2}
    /\ driver[1].pc = "startTimer" /\ driver[1].timer = 1000
    /\ driver[2].pc = "startTimer" /\ driver[2].timer = 2000

(* ------------------------------------------------------------------ *)
(* C19 (as claimed): the periodic clear of a started channel is due in *)
(* every state of its driver and stays so: whatever step the program   *)
(* takes, the clear timer included, the timer is registered afterwards *)
(* and fires again one period later.                                   *)
(* ------------------------------------------------------------------ *)
C19_ClearKeepsFiring ==
    [][\A c \in Channels :
        c \in clearTimers =>
            /\ ENABLED ClearTimer(c)
            /\ c \in clearTimers'
            /\ alive']_vars

(* ------------------------------------------------------------------ *)
(* C20: when the third attempt to send a candidate fails, the cycle    *)
(* goes on with the next candidate in order, on a first attempt, if    *)
(* there is one; a publish cycle only ends when every candidate has    *)
(* been attempted or floor(U/P) posts have been published.             *)
(* ------------------------------------------------------------------ *)
C20_BatchIsNotAborted ==
    /\ [](\A c \in Started :
            (CycleOver(c) /\ driver[c].cursor < Len(driver[c].newPosts)) =>
                Len(driver[c].sent) = FloorUP(Rec(driver[c])))
    /\ [][\A c \in Channels :
            (driver[c].pc = "sendPhoto" /\ driver'[c].sendResult = "exhausted"
               /\ driver'[c] # driver[c]) =>
                IF driver[c].cursor < Len(driver[c].newPosts)
                THEN /\ driver'[c].pc = "sendPhoto" /\ driver'[c].attempt = 1
                     /\ driver'[c].cursor = driver[c].cursor + 1
                     /\ driver'[c].newPosts = driver[c].newPosts
                     /\ driver'[c].sent = driver[c].sent
                ELSE driver'[c].pc \in {"findOne", "recovery"}]_vars

\* the first of two candidates exhausted its retries and the second one was
\* published afterwards
C20_Witness ==
    \E c \in Started :
        /\ CycleOver(c)
        /\ Len(driver[c].newPosts) = 2 /\ driver[c].cursor = 2
        /\ driver[c].sent = <<driver[c].newPosts[2]>>

(* ------------------------------------------------------------------ *)
(* C21 (as claimed): whenever sendPhoto is called for a post, on a     *)
(* first attempt or a retry, the post's id is not in the channel's     *)
(* history at that moment, and no id is published twice in one cycle,  *)
(* also when the fetched sequence holds the same id more than once.    *)
(* ------------------------------------------------------------------ *)
C21_NeverSendsWhatIsInHistory ==
    \A c \in Started :
        Rec(driver[c]).enabled =>
            /\ driver[c].pc = "sendPhoto" =>
                  Candidate(driver[c]).id \notin MapKeys(publishedPosts[c])
            /\ \A j, k \in 1..Len(driver[c].sent) :
                  j # k => driver[c].sent[j].id # driver[c].sent[k].id

(* ------------------------------------------------------------------ *)
(* C22 (as claimed): whatever the source call fails with (an error     *)
(* response with detail, with auth, with another body, or no response  *)
(* at all), importData rejects with an Error whose message carries the *)
(* status code of the response and a cause; it does not reject when    *)
(* the result set is empty.                                            *)
(* ------------------------------------------------------------------ *)
C22_FetchErrorCarriesStatusAndCause ==
    \A c \in Channels :
        /\ driver[c].fetchError # NoError =>
              /\ driver[c].fetchError.name = "Error"
              /\ driver[c].fetchError.status \in {b.status : b \in ErrorBodies}
              /\ driver[c].fetchError.cause # ""
        /\ (driver[c].fetchResult = "ok" /\ driver[c].posts = << >>) =>
              driver[c].fetchError = NoError

(* ------------------------------------------------------------------ *)
(* C23: the history of a channel only changes by a confirmed send,     *)
(* which adds the sent post's id with its creation time and removes    *)
(* nothing, or by the clear timer.  So every entry maps an id to that  *)
(* post's creation time, and in a publish cycle the history is what it *)
(* was at the start of the cycle plus the posts published in it: a     *)
(* candidate that exhausted its retries or was not attempted is not    *)
(* added.                                                              *)
(* ------------------------------------------------------------------ *)
C23_HistoryHoldsConfirmedSends ==
    /\ [](\A c \in Started :
            /\ \A p \in publishedPosts[c] :
                  p[1] \in PostIds /\ p[2] = 1700000000 + p[1]
            /\ driver[c].publishRuns > 0 =>
                  MapKeys(publishedPosts[c]) =
                      driver[c].histStart
                        \cup {driver[c].sent[k].id : k \in 1..Len(driver[c].sent)})
    /\ [][\A c \in Started :
            (\A x \in Channels : ~ClearTimer(x)) =>
                /\ c \in DOMAIN publishedPosts'
                /\ publishedPosts[c] \subseteq publishedPosts'[c]
                /\ publishedPosts'[c] # publishedPosts[c] =>
                      /\ driver[c].pc = "sendPhoto" /\ driver'[c].pc = "pacing"
                      /\ driver'[c].sendResult = "ok"
                      /\ publishedPosts'[c] = publishedPosts[c] \cup
                            {<<Candidate(driver[c]).id,
                               Candidate(driver[c]).created_utc>>}]_vars

\* a cycle published its first candidate and gave up on the second: the
\* history has gained the first one only
C23_Witness ==
    \E c \in Started :
        /\ CycleOver(c)
        /\ Len(driver[c].newPosts) = 2 /\ driver[c].cursor = 2
        /\ driver[c].sent = <<driver[c].newPosts[1]>>
        /\ driver[c].sendResult = "exhausted"
        /\ driver[c].newPosts[2].id \notin MapKeys(publishedPosts[c])

(* ------------------------------------------------------------------ *)
(* C24: every confirmed send is followed by a sleep of the posting     *)
(* interval of the channel record the cycle runs with (its interval,   *)
(* or 5 minutes), also after the last send of a cycle; while the sleep *)
(* is pending nothing else is done for the channel, and only its end   *)
(* starts the next send or the refresh before the next fetch.          *)
(* ------------------------------------------------------------------ *)
C24_PacingAfterEverySend ==
    [][\A c \in Channels :
        /\ (driver[c].pc = "sendPhoto" /\ driver'[c].sendResult = "ok") =>
              /\ driver'[c].pc = "pacing"
              /\ driver'[c].channel = driver[c].channel
              /\ driver'[c].timer = IF Rec(driver[c]).interval = 0
                                    THEN 5 * 60 * 1000
                                    ELSE Rec(driver[c]).interval
        /\ (driver[c].pc = "pacing" /\ driver'[c] # driver[c] /\ alive') =>
              /\ PacingTimer(c)
              /\ \/ driver'[c].pc = "findOne"
                 \/ /\ driver'[c].pc = "sendPhoto" /\ driver'[c].attempt = 1
                    /\ driver'[c].cursor = driver[c].cursor + 1
        /\ (driver'[c].pc = "getPosts" /\ driver'[c] # driver[c]) =>
              driver[c].pc \in {"countDocuments", "fetchSleep"}]_vars

\* the last candidate of a cycle has been published and the sleep of the
\* channel's own interval is pending before the refresh
C24_Witness ==
    \E c \in Started :
        /\ driver[c].pc = "pacing"
        /\ driver[c].cursor = Len(driver[c].newPosts)
        /\ driver[c].timer = 2500000
        /\ driver[c].outstanding = 1

(* ------------------------------------------------------------------ *)
(* C25: the posts handed to sendPhoto in a cycle are, in the order     *)
(* they are handed over, a subsequence of the fetched sequence; the    *)
(* send of the next candidate starts only when the previous one was    *)
(* published and its sleep is over, or when its third attempt failed.  *)
(* ------------------------------------------------------------------ *)
IsSubsequence(a, b) ==
    \E f \in [1..Len(a) -> 1..Len(b)] :
        /\ \A j, k \in 1..Len(a) : j < k => f[j] < f[k]
        /\ \A k \in 1..Len(a) : a[k] = b[f[k]]

C25_SendsInFetchedOrder ==
    /\ [](\A c \in Started :
            driver[c].publishRuns > 0 =>
                /\ driver[c].cursor <= Len(driver[c].newPosts)
                /\ IsSubsequence(SubSeq(driver[c].newPosts, 1, driver[c].cursor),
                                 driver[c].posts)
                /\ IsSubsequence(driver[c].sent,
                                 SubSeq(driver[c].newPosts, 1, driver[c].cursor)))
    /\ [][\A c \in Channels :
            (driver[c].publishRuns > 0 /\ driver'[c].publishRuns > 0
               /\ driver'[c].cursor # driver[c].cursor) =>
                /\ driver'[c].cursor = driver[c].cursor + 1
                /\ driver'[c].pc = "sendPhoto" /\ driver'[c].attempt = 1
                /\ driver'[c].posts = driver[c].posts
                /\ driver'[c].newPosts = driver[c].newPosts
                /\ \/ driver[c].pc = "pacing" /\ driver[c].sendResult = "ok"
                   \/ /\ driver[c].pc = "sendPhoto" /\ driver[c].attempt = 3
                      /\ driver'[c].sendFails = 0]_vars

\* the second of two fetched posts is being sent after the first one was
\* published
C25_Witness ==
    \E c \in Started :
        /\ driver[c].pc = "sendPhoto" /\ driver[c].cursor = 2
        /\ Len(driver[c].posts) = 2
        /\ driver[c].sent = <<driver[c].posts[1]>>
        /\ Candidate(driver[c]) = driver[c].posts[2]

(* ------------------------------------------------------------------ *)
(* C26: when every fetched post is removed or in the history (also     *)
(* when nothing was fetched), the cycle ends with 'There are no new    *)
(* posts': sendPhoto is not called, the history is as before, and the  *)
(* channel is not stopped, the timer of its next refresh is pending.   *)
(* ------------------------------------------------------------------ *)
C26_NothingToPublish ==
    \A c \in Started :
        LET d == driver[c]
        IN  (d.publishRuns > 0 /\ NewOf(d.posts, d.histStart) = << >>) =>
                /\ d.error = "NoNewPosts"
                /\ d.pc = "recovery" /\ d.timer > 0 /\ d.outstanding = 1
                /\ d.sendCalls = 0 /\ d.sendResult = "none" /\ d.sent = << >>
                /\ MapKeys(publishedPosts[c]) = d.histStart

\* a fetch returned a removed post and a post that is in the history
C26_Witness ==
    \E c \in Started :
        LET d == driver[c]
        IN  /\ d.error = "NoNewPosts" /\ Len(d.posts) = 2
            /\ \E j, k \in 1..2 :
                  /\ d.posts[j].removed_by_category
                  /\ ~d.posts[k].removed_by_category
                  /\ d.posts[k].id \in d.histStart

(* ------------------------------------------------------------------ *)
(* C27: the first fetch of a cycle is issued by the step that ends a   *)
(* successful refresh (findOne returned the channel, countDocuments is *)
(* not 0) and the cycle runs with the record that refresh returned:    *)
(* the record stays the same through the cycle, and the sleep after a  *)
(* published post and the limit of the cycle are those of its interval.*)
(* ------------------------------------------------------------------ *)
C27_CycleRunsWithRefreshedRecord ==
    [][\A c \in Channels :
        /\ (driver'[c].pc = "getPosts" /\ driver'[c].attempt = 1
              /\ driver'[c] # driver[c]) =>
              /\ driver[c].pc = "countDocuments"
              /\ driver[c].found # NoRecord
              /\ driver'[c].channel = driver[c].found
        /\ (InCycle(c) /\ driver'[c].pc # "off") =>
              driver'[c].channel = driver[c].channel
        /\ driver'[c].pc = "pacing" =>
              /\ driver'[c].timer = IF Rec(driver'[c]).interval = 0
                                    THEN 5 * 60 * 1000
                                    ELSE Rec(driver'[c]).interval
              /\ Len(driver'[c].sent) <= FloorUP(Rec(driver'[c]))]_vars

\* a refresh has returned the channel with another interval than the one
\* the last cycle ran with
C27_Witness ==
    \E c \in Started :
        /\ driver[c].pc = "countDocuments"
        /\ driver[c].found # NoRecord /\ driver[c].channel # NoRecord
        /\ Rec(driver[c]).interval = 0
        /\ (CHOOSE r \in driver[c].found : TRUE).interval = 2500000
        /\ publishedPosts[c] # EmptyMap

(* ------------------------------------------------------------------ *)
(* C28 (as claimed): a candidate left unsent when a cycle ends at the  *)
(* limit is not in the history; and when the source returns the post   *)
(* in every fetch, every send succeeds and the channel is not stopped, *)
(* the post is eventually published and recorded in a later cycle.     *)
(* ------------------------------------------------------------------ *)
LeftOver(c) ==
    /\ c \in Started /\ CycleOver(c)
    /\ \E k \in (driver[c].cursor + 1)..Len(driver[c].newPosts) :
          driver[c].newPosts[k] = RollItem

C28_LeftOverIsPublishedLater ==
    \A c \in Channels :
        /\ [](LeftOver(c) => RollItem.id \notin MapKeys(publishedPosts[c]))
        /\ LeftOver(c) ~> (c \in Started /\ RollItem.id \in MapKeys(publishedPosts[c]))

(* ------------------------------------------------------------------ *)
(* C29 (as claimed): the terminal error of a fetch and of a send, when *)
(* the third attempt fails, wraps the error of that third attempt and  *)
(* carries the number of attempts made, 3.                             *)
(* ------------------------------------------------------------------ *)
WrapsLastError(c) ==
    /\ \A failure \in SourceFailures :
          (ImportDataRejected(c, failure) /\ driver[c].attempt = 3) =>
              /\ driver'[c].fetchResult = "exhausted"
              /\ driver'[c].fetchThrown.text # ""
              /\ driver'[c].fetchThrown.args.message = importDataError(failure)
    /\ \A failure \in SendFailures :
          (SendPhotoRejected(c, failure) /\ driver[c].attempt = 3) =>
              /\ driver'[c].sendThrown.text # ""
              /\ driver'[c].sendThrown.args.url = Candidate(driver[c]).id
              /\ driver'[c].sendThrown.args.message = failure

C29_TerminalErrorWrapsLastAndCount ==
    [][\A c \in Channels :
        /\ WrapsLastError(c)
        /\ driver'[c].fetchThrown # driver[c].fetchThrown /\ driver'[c].fetchThrown # NoThrown
              => /\ "attempts" \in DOMAIN driver'[c].fetchThrown.args
                 /\ driver'[c].fetchThrown.args.attempts = 3
        /\ driver'[c].sendThrown # driver[c].sendThrown /\ driver'[c].sendThrown # NoSendThrown
              => /\ "attempts" \in DOMAIN driver'[c].sendThrown.args
                 /\ driver'[c].sendThrown.args.attempts = 3]_vars

(* ------------------------------------------------------------------ *)
(* C29 (amended): the terminal error of a fetch and of a send, when    *)
(* the third attempt fails, wraps the message of the error of that     *)
(* third attempt (the send's also names the post) and nothing else: it *)
(* carries no number of attempts.  No terminal error exists before the *)
(* third attempt has failed.                                           *)
(* ------------------------------------------------------------------ *)
C29_TerminalErrorWrapsLast ==
    /\ [](\A c \in Channels :
            /\ driver[c].fetchThrown # NoThrown <=> driver[c].fetchResult = "exhausted"
            /\ driver[c].fetchThrown # NoThrown =>
                  /\ driver[c].fetchThrown.args.message = driver[c].fetchError
                  /\ DOMAIN driver[c].fetchThrown.args = {"message"}
            /\ driver[c].sendResult = "exhausted" => driver[c].sendThrown # NoSendThrown
            /\ driver[c].sendThrown # NoSendThrown =>
                  /\ driver[c].sendThrown.args.message \in SendFailures
                  /\ DOMAIN driver[c].sendThrown.args = {"url", "message"})
    /\ [][\A c \in Channels :
            /\ WrapsLastError(c)
            /\ driver'[c].sendThrown # driver[c].sendThrown /\ driver'[c].pc # "off"
                  => \/ driver[c].pc = "sendPhoto" /\ driver[c].attempt = 3
                     \/ driver'[c].sendThrown = NoSendThrown]_vars

\* the last candidate of a cycle exhausted its retries on another error than
\* the 429 its first attempt may have failed with
C29_Witness ==
    \E c \in Started :
        /\ driver[c].sendResult = "exhausted"
        /\ driver[c].sendThrown.args.message.status = 400
        /\ driver[c].sendThrown.args.url = driver[c].newPosts[driver[c].cursor].id

(* ------------------------------------------------------------------ *)
(* C30: the attempt number belongs to one operation.  While a fetch    *)
(* sequence or the publish sequence of one post is running, the        *)
(* attempt number is within 1..3 and equals the number of calls made   *)
(* in that sequence so far; the fails of the sequence are one behind   *)
(* during a call and level with it during the retry sleep.  Every step *)
(* that takes up a post (the cursor moves on) and every step that      *)
(* begins the fetch of a cycle starts at attempt 1 with exactly one    *)
(* call made, whatever the previous post or cycle ended with; a post   *)
(* is left only after 1..3 calls of sendPhoto.  "Each candidate" is    *)
(* each new post the loop of publishPosts takes up.                    *)
(* ------------------------------------------------------------------ *)
Fetching(c) == driver[c].pc \in {"getPosts", "fetchSleep"}

C31_HistoryIsPerChannel ==
    [][\A c \in Channels :
        /\ SendPhotoResolved(c) =>
              /\ Candidate(driver[c]).id \in MapKeys(publishedPosts'[c])
              /\ \A x \in Started \ {c} : publishedPosts'[x] = publishedPosts[x]
        /\ \A posts \in TwoResults :
              ImportDataResolved(c, posts) =>
                  driver'[c].newPosts = NewOf(posts, MapKeys(publishedPosts[c]))]_vars

\* channel 2 is sending the post that channel 1 has published already
C31_Witness ==
    /\ Started = {1, 2}
    /\ 1 \in MapKeys(publishedPosts[1])
    /\ 1 \notin MapKeys(publishedPosts[2])
    /\ driver[2].pc = "sendPhoto"
    /\ Candidate(driver[2]).id = 1

(* ------------------------------------------------------------------ *)
(* C32: the retries of the fetch belong to the fetch.  In one cycle    *)
(* importData is called at most 3 times; a call of importData follows  *)
(* only the refresh of the channel or the retry sleep of a failed      *)
(* fetch, never a fetch that has succeeded; once the fetch of a cycle  *)
(* has succeeded the number of fetch calls of the cycle stays as it is *)
(* until the cycle is over, and a failure of the publish phase         *)
(* (nothing new, a post whose retries are exhausted, no post           *)
(* published) goes to the next post or to the recovery timer only.     *)
(* ------------------------------------------------------------------ *)
C32_PublishFailureDoesNotRefetch ==
    /\ [](\A c \in Channels :
            LET d == driver[c]
            IN  /\ d.fetchCalls \in 0..maxRetries
                /\ d.fetchResult = "ok" => ~Fetching(c)
                /\ d.pc \in {"sendPhoto", "sendSleep", "pacing"} => d.fetchResult = "ok")
    /\ [][\A c \in Channels :
            LET d == driver[c]
                n == driver'[c]
            IN  /\ (n.pc = "getPosts" /\ n # d) =>
                      /\ d.pc \in {"countDocuments", "fetchSleep"}
                      /\ d.fetchResult # "ok"
                /\ (d.fetchResult = "ok" /\ InCycle(c) /\ n # d /\ n.pc # "off") =>
                      /\ n.pc \in {"sendPhoto", "sendSleep", "pacing", "recovery", "findOne"}
                      /\ n.fetchCalls = d.fetchCalls
                      /\ n.fetchResult = "ok"
                /\ (n.error \in {"NoNewPosts", "FailedToPublishAny"} /\ n # d /\ InCycle(c)) =>
                      /\ n.pc = "recovery"
                      /\ n.timer = postingInterval
                      /\ n.fetchCalls \in 1..maxRetries
                /\ (n.sendThrown # d.sendThrown /\ n.sendThrown # NoSendThrown) =>
                      /\ n.pc \in {"sendPhoto", "recovery", "findOne"}
                      /\ n.fetchCalls = d.fetchCalls]_vars

\* the second fetch of a cycle succeeded and every send of the cycle failed:
\* the cycle is over with two fetch calls
C32_Witness ==
    \E c \in Started :
        /\ driver[c].pc = "recovery"
        /\ driver[c].error = "FailedToPublishAny"
        /\ driver[c].fetchCalls = 2
        /\ driver[c].fetchFails = 1
        /\ driver[c].sendThrown # NoSendThrown

(* ------------------------------------------------------------------ *)
(* C33: no cycle ends in an immediate re-fetch.  A fetch sequence      *)
(* starts only from the refresh of the channel (findOne, then          *)
(* countDocuments), and the refresh starts only when a timer of the    *)
(* channel has fired (the start timer or the recovery timer of a       *)
(* failed cycle, both longer than 0) or at the end of a publish phase  *)
(* in which at least one sleep(postingInterval), longer than 0, has    *)
(* been served since the fetch of that cycle succeeded.                *)
(* ------------------------------------------------------------------ *)
C33_SuspensionBeforeNextFetch ==
    [][\A c \in Channels :
        LET d == driver[c]
            n == driver'[c]
        IN  /\ (n.pc = "getPosts" /\ n # d /\ ~Fetching(c)) => d.pc = "countDocuments"
            /\ (n.pc = "countDocuments" /\ n # d) => d.pc = "findOne"
            /\ (n.pc = "findOne" /\ n # d) =>
                  \/ /\ d.pc \in {"startTimer", "recovery"}
                     /\ d.timer > 0
                     /\ d.pc = "recovery" => d.timer = postingInterval
                  \/ /\ d.pc \in {"pacing", "sendPhoto"}
                     /\ d.fetchResult = "ok"
                     /\ d.postsCounter > 0
                     /\ n.paced = d.postsCounter * channelPostingInterval(Rec(d))
                     /\ n.paced > 0
            /\ (InCycle(c) /\ n # d /\ n.pc \notin {"off", "findOne"} /\ ~InCycle(c)') =>
                  /\ n.pc = "recovery"
                  /\ n.timer > 0]_vars

\* a cycle ends with a post whose retries are exhausted, after a post that was
\* published and paced: the refresh follows without a further timer
C33_Witness ==
    \E c \in Started :
        /\ driver[c].pc = "findOne"
        /\ driver[c].sendResult = "exhausted"
        /\ driver[c].postsCounter = 1
        /\ driver[c].paced = postingInterval

(* ------------------------------------------------------------------ *)
(* C34: a cycle that runs with a record whose interval is larger than  *)
(* updatingInterval has maxPostsPerUpdate = 0.  It never calls         *)
(* sendPhoto and never sleeps the posting interval; when the fetch     *)
(* gave at least one new post it ends in the recovery timer with       *)
(* 'Failed to publish any posts', and no step of such a cycle changes  *)
(* the channel's Map.                                                  *)
(* ------------------------------------------------------------------ *)
SlowerThanUpdate(d) ==
    /\ d.channel # NoRecord
    /\ Rec(d).interval > updatingInterval

C34_IntervalAboveUpdateNeverPublishes ==
    /\ [](\A c \in Channels :
            LET d == driver[c]
            IN  SlowerThanUpdate(d) =>
                  /\ maxPostsPerUpdate(Rec(d)) = 0
                  /\ d.pc \notin {"sendPhoto", "sendSleep", "pacing"}
                  /\ d.sendCalls = 0
                  /\ d.sent = <<>>
                  /\ d.paced = 0
                  /\ (d.publishRuns > 0 /\ Len(d.newPosts) >= 1) =>
                        /\ d.pc = "recovery"
                        /\ d.error = "FailedToPublishAny"
                        /\ d.timer = postingInterval)
    /\ [][\A c \in Channels :
            (SlowerThanUpdate(driver[c]) /\ c \in DOMAIN publishedPosts') =>
                publishedPosts'[c] = publishedPosts[c]]_vars

\* a fetch of two new posts for a channel with an interval of two hours: the
\* cycle is over, nothing was sent
C34_Witness ==
    \E c \in Started :
        /\ SlowerThanUpdate(driver[c])
        /\ driver[c].pc = "recovery"
        /\ driver[c].error = "FailedToPublishAny"
        /\ Len(driver[c].newPosts) = 2
        /\ driver[c].sendCalls = 0

(* ------------------------------------------------------------------ *)
(* C35: the posting-interval sleeps of one publish cycle add up to at  *)
(* most updatingInterval.  With P the posting interval of the cycle's  *)
(* record, the sleeps served so far are postsCounter * P (less the one *)
(* in progress), postsCounter is at most floor(U / P), and             *)
(* floor(U / P) * P is at most U, for intervals that divide            *)
(* updatingInterval and for intervals that do not.                     *)
(* ------------------------------------------------------------------ *)
C35_PacingFitsTheUpdateInterval ==
    \A c \in Channels :
        LET d == driver[c]
            P == channelPostingInterval(Rec(d))
            inProgress == IF d.pc = "pacing" THEN P ELSE 0
        IN  d.channel # NoRecord =>
              /\ P > 0
              /\ d.paced + inProgress = d.postsCounter * P
              /\ d.postsCounter = Len(d.sent)
              /\ d.postsCounter <= updatingInterval \div P
              /\ d.postsCounter * P <= (updatingInterval \div P) * P
              /\ d.paced + inProgress <= updatingInterval
              /\ d.pc = "pacing" => d.timer = P

\* the cap of a cycle stopped the loop with a post left, for an interval that
\* does not divide updatingInterval
C35_Witness ==
    \E c \in Started :
        /\ driver[c].pc = "findOne"
        /\ Rec(driver[c]).interval = 2500000
        /\ driver[c].paced = 2500000
        /\ Len(driver[c].newPosts) = 2
        /\ driver[c].postsCounter = 1

(* ------------------------------------------------------------------ *)
(* C36: a publish cycle ends.  In a cycle whose fetch gave n new posts *)
(* sendPhoto is called at most 3 * n times (at most 3 times for each   *)
(* post the loop has taken up; a post whose retries are exhausted is   *)
(* not counted in postsCounter), and when every call returns and every *)
(* sleep ends, a cycle that is publishing reaches its end: the refresh *)
(* of the next cycle after a published post, or the recovery timer.    *)
(* ------------------------------------------------------------------ *)
Publishing(c) == driver[c].pc \in {"sendPhoto", "sendSleep", "pacing"}

C36_PublishCycleTerminates ==
    /\ [](\A c \in Channels :
            LET d == driver[c]
            IN  /\ d.cursor <= Len(d.newPosts)
                /\ d.sendTotal <= maxRetries * d.cursor
                /\ d.sendTotal <= maxRetries * Len(d.newPosts)
                /\ d.postsCounter + (IF d.sendThrown # NoSendThrown THEN 1 ELSE 0) <= d.cursor)
    /\ \A c \in Channels : Publishing(c) ~> CycleOver(c)

====
